---- MODULE Spec2Model ----
(***************************************************************************)
(* takzero: the search tree (Node), its evaluation model (Eval), the       *)
(* simulate / propagate_child_eval algorithm of search/mcts.rs and the     *)
(* regularized selection of search/node/policy.rs, over small finite game  *)
(* trees and fixed oracles; the Dirichlet noise of search/node/noise.rs;   *)
(* the batched agent of search/env.rs; the text form of Target             *)
(* (target.rs); the self-play threads and their replay buffer              *)
(* (train/src/self_play.rs).                                               *)
(***************************************************************************)
EXTENDS Integers, Sequences, FiniteSets, TLC

VARIABLES
    game,      \* index of the environment (game tree) the root is searched on
    prior,     \* the oracle's policy: which prior table agent.policy returns
    valtab,    \* the oracle's value table: parameters of agent.value
    debug,     \* TRUE when debug assertions are compiled in
    tree,      \* the search tree: node id -> Node
    status,    \* "running", or "panicked" once a call has panicked
    calls,     \* number of simulate calls made on the root
    pre,       \* history: the tree as it was when the last simulate call began
    last,      \* history: the frames (root first) of the last simulate call
    hist,      \* history: node id -> the samples averaged into its mean value
    picked,    \* the last result of select_with_improved_policy
    noisy,     \* apply_dirichlet: the node it is called on, and its last call
    batch,     \* policy_value_uncertainty: the arguments and the result
    codec,     \* Target: a value, its text, and what is parsed from the text
    play       \* self-play: the threads of run and the replay buffer they share

searchVars == <<game, prior, valtab, debug, tree, status, calls, pre, last, hist, picked>>
vars == <<searchVars, noisy, batch, codec, play>>

\* the value of the variable of a part of the program that is not running
Idle == <<>>

----------------------------------------------------------------------------
(* Bounds of the model.                                                    *)

\* simulate calls made on one root
MaxSims == 12
\* the priors of the oracle are multiples of 2^-PriorBits
PriorBits == 3
\* apply_dirichlet: probabilities, noise and ratio are multiples of 2^-NoiseBits
NoiseBits == 1
\* apply_dirichlet: the children of the node
MaxKids == 2
\* policy_value_uncertainty: the slots of a batch
MaxBatch == 3
\* Target: the entries of a policy
MaxPolicy == 2
\* self-play: the threads that run `run` on one replay buffer
Threads == 2
\* self-play: the rounds (iterations of the loop of run) of a thread
MaxRounds == 2
\* self-play: the games a thread plays side by side (64 in the code)
BATCH_SIZE == 1
\* self-play: the steps of a round (500 in the code)
STEPS_BEFORE_CHECKING_NETWORK == 3
\* self-play: the actions a replay holds
STEP == 2
\* self-play: the replays the buffer is truncated to
MAXIMUM_REPLAY_BUFFER_SIZE == 3

----------------------------------------------------------------------------
(* f32 arithmetic.  A finite f32 is m * 2^e, kept with m odd (or m = 0,    *)
(* e = 0), |m| < 2^24.  +0.0 and -0.0 are one value (they compare equal).  *)
(* Rounding is to nearest, ties to even, as in IEEE 754.  Exponent range   *)
(* (overflow, subnormals) is not reached by the values of the model.       *)

Abs(x) == IF x < 0 THEN -x ELSE x

RECURSIVE Pow2(_)
Pow2(k) == IF k = 0 THEN 1 ELSE 2 * Pow2(k - 1)

P20 == Pow2(20)
P24 == Pow2(24)
P29 == Pow2(29)
P30 == Pow2(30)

RECURSIVE Canon(_, _)
Canon(m, e) ==
    IF m = 0 THEN [m |-> 0, e |-> 0]
    ELSE IF m % 2 = 0 THEN Canon(m \div 2, e + 1)
    ELSE [m |-> m, e |-> e]

F32Zero == [m |-> 0, e |-> 0]
F32OfInt(k) == Canon(k, 0)
F32Neg(a) == [m |-> -(a.m), e |-> a.e]

\* The f32 nearest to (A + f) * 2^e for a magnitude A >= 0 and a fraction
\* 0 <= f < 1 that is non-zero exactly when sticky holds; A >= 2^24 whenever
\* sticky holds (a guard bit is present).
RECURSIVE RoundMag(_, _, _)
RoundMag(A, e, sticky) ==
    IF A < P24 THEN Canon(A, e)
    ELSE IF A >= 2 * P24 THEN RoundMag(A \div 2, e + 1, sticky \/ (A % 2 = 1))
    ELSE LET q == A \div 2
             up == (A % 2 = 1) /\ (sticky \/ (q % 2 = 1))
         IN Canon(IF up THEN q + 1 ELSE q, e + 1)

F32Round(sign, A, e, sticky) ==
    LET r == RoundMag(A, e, sticky) IN IF sign < 0 THEN F32Neg(r) ELSE r

\* The largest shift d' <= d with A * 2^d' < 2^30.
RECURSIVE FitShift(_, _)
FitShift(A, d) ==
    IF d = 0 \/ 2 * A >= P30 THEN 0 ELSE 1 + FitShift(2 * A, d - 1)

\* floor(u / 2^r) for any r >= 0
FloorShift(u, r) ==
    IF r > 29 THEN (IF u >= 0 THEN 0 ELSE -1) ELSE u \div Pow2(r)

\* f32::mul_add(a, k, x): a * k + x with one rounding (fused); k is a small
\* non-negative integer, exactly representable.
F32MulAdd(a, k, x) ==
    LET p == a.m * k
    IN IF p = 0 THEN x
       ELSE IF x.m = 0 THEN F32Round(p, Abs(p), a.e, FALSE)
       ELSE LET e0 == IF a.e < x.e THEN a.e ELSE x.e
                \* t: the term to shift left by d; u: the term at exponent e0
                t == IF a.e > x.e THEN p ELSE x.m
                u == IF a.e > x.e THEN x.m ELSE p
                d == IF a.e > x.e THEN a.e - x.e ELSE x.e - a.e
                dd == FitShift(Abs(t), d)
                r == d - dd
            IN IF r = 0
               THEN LET s == t * Pow2(d) + u IN F32Round(s, Abs(s), e0, FALSE)
               ELSE \* t dominates: |t| * 2^dd >= 2^29 > |u|
                    LET sg == IF t < 0 THEN -1 ELSE 1
                        su == sg * u
                        s == Abs(t) * Pow2(dd) + FloorShift(su, r)
                        st == IF r > 29 THEN su # 0 ELSE su % Pow2(r) # 0
                    IN F32Round(sg, s, e0 + r, st)

\* The magnitude A scaled into [2^29, 2^30), with its exponent.
RECURSIVE ScaleUp(_, _)
ScaleUp(A, e) ==
    IF A >= P29 THEN [m |-> A, e |-> e] ELSE ScaleUp(2 * A, e - 1)

\* a / n in f32, for a small positive integer n (n <= 16).
F32DivInt(a, n) ==
    IF a.m = 0 THEN F32Zero
    ELSE LET s == ScaleUp(Abs(a.m), a.e)
         IN F32Round(a.m, s.m \div n, s.e, s.m % n # 0)

\* a * b and a + b in f32, each rounded once
F32Mul(a, b) == F32Round(a.m * b.m, Abs(a.m * b.m), a.e + b.e, FALSE)
F32Add(a, b) == F32MulAdd(a, 1, b)
F32Sub(a, b) == F32Add(a, F32Neg(b))
F32One == F32OfInt(1)

\* the denominator of the priors: a power of two, so that a prior is an f32
PriorDen == Pow2(PriorBits)

----------------------------------------------------------------------------
(* Eval: Value(f32) | Win(ply) | Draw(ply) | Loss(ply), as one record      *)
(* shape.  val is the scalar of a Value, ply the distance of a proof.      *)

EvalValue(v) == [tag |-> "Value", ply |-> 0, val |-> v]
EvalWin(n) == [tag |-> "Win", ply |-> n, val |-> F32Zero]
EvalLoss(n) == [tag |-> "Loss", ply |-> n, val |-> F32Zero]
EvalDraw(n) == [tag |-> "Draw", ply |-> n, val |-> F32Zero]
\* the return value of a call that panicked (there is none)
NoEval == [tag |-> "None", ply |-> 0, val |-> F32Zero]

EvalDefault == EvalValue(F32Zero)

IsWin(ev) == ev.tag = "Win"
IsLoss(ev) == ev.tag = "Loss"
IsDraw(ev) == ev.tag = "Draw"

\* Eval::negate: the evaluation seen from the other side.
Negate(ev) ==
    CASE ev.tag = "Win" -> EvalLoss(ev.ply)
      [] ev.tag = "Loss" -> EvalWin(ev.ply)
      [] ev.tag = "Draw" -> EvalDraw(ev.ply)
      [] OTHER -> EvalValue(F32Neg(ev.val))

\* f32::from(Eval): a proven result contributes +1, -1 or 0.
EvalToF32(ev) ==
    CASE ev.tag = "Win" -> F32OfInt(1)
      [] ev.tag = "Loss" -> F32OfInt(-1)
      [] ev.tag = "Draw" -> F32Zero
      [] OTHER -> ev.val

\* Eval::from(Terminal): the proven outcome, ply 0.
TerminalEval(term) ==
    CASE term = "Win" -> EvalWin(0)
      [] term = "Loss" -> EvalLoss(0)
      [] OTHER -> EvalDraw(0)

----------------------------------------------------------------------------
(* Environments: finite game trees.  Position 1 is the start; kids[p] are  *)
(* the positions the legal actions of p lead to, in the order              *)
(* populate_actions enumerates them (an action is named by its index in    *)
(* that order); term[p] is what terminal() reports at p, for the side to   *)
(* move at p.  Every position that is not terminal has a legal action.     *)

\* a winning move at once (to 2), and a forced line of five plies (via 3)
GameRace ==
    [kids |-> << <<2, 3>>, <<>>, <<4>>, <<5>>, <<6>>, <<7>>, <<>> >>,
     term |-> <<"None", "Loss", "None", "None", "None", "None", "Loss">>]

\* a won position: 2 is a draw, 3 a win for the opponent, 4 a loss for them
GameWon ==
    [kids |-> << <<2, 3, 4>>, <<5, 6>>, <<>>, <<7, 8>>, <<>>, <<>>, <<>>, <<>> >>,
     term |-> <<"None", "None", "Win", "None", "Win", "Draw", "Win", "Win">>]

\* a lost position: every move lets the opponent win
GameLost ==
    [kids |-> << <<2, 3>>, <<4>>, <<5, 6>>, <<>>, <<>>, <<>> >>,
     term |-> <<"None", "None", "None", "Loss", "Draw", "Loss">>]

\* a drawn position
GameDrawn ==
    [kids |-> << <<2, 3>>, <<>>, <<4>>, <<5, 6>>, <<>>, <<>> >>,
     term |-> <<"None", "Win", "None", "None", "Draw", "Win">>]

\* a drawn position: 2 is won for the opponent in more plies than the draw
\* by 3 takes
GameDrawLate ==
    [kids |-> << <<2, 3>>, <<4>>, <<>>, <<5>>, <<>> >>,
     term |-> <<"None", "None", "Draw", "None", "Win">>]

\* a lost position: 2 and 3 are won for the opponent, in 0 and 1 plies
GameLostLate ==
    [kids |-> << <<2, 3>>, <<>>, <<4>>, <<5>>, <<>> >>,
     term |-> <<"None", "Win", "None", "None", "Win">>]

Games == <<GameRace, GameWon, GameLost, GameDrawn, GameDrawLate, GameLostLate>>

Env == Games[game]
Positions == DOMAIN Env.kids

\* Environment::populate_actions
PopulateActions(p) == Env.kids[p]
\* Environment::terminal
Terminal(p) == Env.term[p]

----------------------------------------------------------------------------
(* The agent: a fixed oracle.  agent.policy(env)[action] is a multiple of  *)
(* 1 / PriorDen; agent.value(env) is -1, 0 or 1.                           *)

Priors == {"uniform", "first", "last"}
ValTabs == {<<a, b>> : a \in 0..2, b \in 0..2}

\* the prior of the i-th of the n actions of a position, times PriorDen
AgentPolicy(i, n) ==
    CASE prior = "first" -> IF i = 1 THEN PriorDen - 1 ELSE 1
      [] prior = "last" -> IF i = n THEN PriorDen - 1 ELSE 1
      [] OTHER -> PriorDen

AgentValue(p) == F32OfInt(((valtab[1] * p + valtab[2]) % 3) - 1)

----------------------------------------------------------------------------
(* Node.  children holds the ids of the child nodes in order; the id of a  *)
(* node is the position it stands for, and the action of a child is its    *)
(* index.  policy is the prior times PriorDen.                             *)

NodeDefault ==
    [evaluation |-> EvalDefault, visit_count |-> 0, policy |-> 0, children |-> <<>>]

\* a child created with one visit
FromPolicyVisited(policy) == [NodeDefault EXCEPT !.policy = policy, !.visit_count = 1]

FromPolicy(policy) == [NodeDefault EXCEPT !.policy = policy]

\* the comparison against 0 in place of 1
NeedsInitializationUnvisited(node) == node.visit_count <= 0

\* the comparison against 2 in place of 1
NeedsInitializationTwice(node) == node.visit_count <= 2

NeedsInitialization(node) == node.visit_count <= 1

\* is_known with Win and Loss in the arm of Value
IsKnownOnlyDraw(ev) == ev.tag = "Draw"

\* is_known with Loss in the arm of Value
IsKnownNoLoss(ev) == ev.tag \in {"Win", "Draw"}

IsKnown(ev) == ev.tag \in {"Win", "Draw", "Loss"}

\* update_mean_value panics (unreachable!) unless the evaluation is a Value,
\* which is_known tells.
UpdateMeanValuePanics(node) == IsKnown(node.evaluation)

\* the mean weighted by visit_count in place of visit_count - 1
UpdateMeanValueAllVisits(node, value) ==
    [node EXCEPT !.evaluation =
        EvalValue(F32DivInt(F32MulAdd(node.evaluation.val, node.visit_count, value),
                            node.visit_count))]

UpdateMeanValue(node, value) ==
    [node EXCEPT !.evaluation =
        EvalValue(F32DivInt(F32MulAdd(node.evaluation.val, node.visit_count - 1, value),
                            node.visit_count))]

----------------------------------------------------------------------------
(* propagate_child_eval                                                    *)

SetMax(S) == CHOOSE x \in S : \A y \in S : y <= x

\* the evaluations of the children of node n, in order
Evaluations(t, n) ==
    [i \in DOMAIN t[n].children |-> t[t[n].children[i]].evaluation]

\* any in place of all
AllWinAny(evals) == \E i \in DOMAIN evals : IsWin(evals[i])

AllWin(evals) == \A i \in DOMAIN evals : IsWin(evals[i])

\* Win children not admitted
AllWinOrDrawOnlyDraw(evals) == \A i \in DOMAIN evals : IsDraw(evals[i])

AllWinOrDraw(evals) == \A i \in DOMAIN evals : IsWin(evals[i]) \/ IsDraw(evals[i])

\* Eval::ply is Some for Win, Loss and Draw, None for Value
HasPly(ev) == ev.tag # "Value"

\* the plies of filter_map(|e| e.ply())
KnownPlies(evals) == {evals[i].ply : i \in {j \in DOMAIN evals : HasPly(evals[j])}}

DrawPlies(evals) == {evals[i].ply : i \in {j \in DOMAIN evals : IsDraw(evals[j])}}

\* the parent taken for lost as well
WinPromotionSameSide(child_eval) == EvalLoss(child_eval.ply)

\* the negation with a ply added
WinPromotionPlusOne(child_eval) == EvalWin(child_eval.ply + 1)

\* the negation left out
WinPromotionNoNegate(child_eval) == child_eval

\* a child returned Loss: this node is a Win
WinPromotion(child_eval) == Negate(child_eval)

\* the step to the parent not counted
LossPromotionNoStep(evals) == EvalLoss(SetMax(KnownPlies(evals)))

LossPromotion(evals) == EvalLoss(1 + SetMax(KnownPlies(evals)))

\* the plies of the Win children counted as well
DrawPromotionAllPlies(evals) == EvalDraw(1 + SetMax(KnownPlies(evals)))

DrawPromotion(evals) == EvalDraw(1 + SetMax(DrawPlies(evals)))

\* the stored mean returned
BackupReturnStored(node, child_eval) == node.evaluation

\* what an unproven node returns after a backup
BackupReturn(node, child_eval) == EvalValue(EvalToF32(Negate(child_eval)))

\* node: the node before the call; evals: its children's evaluations.
\* The result: the node after the call, the returned Eval, the arm taken.
PropagateChildEval(node, evals, child_eval) ==
    IF UpdateMeanValuePanics(node)
    THEN [node |-> node, ret |-> NoEval, branch |-> "panic"]
    ELSE
    LET upd == UpdateMeanValue(node, EvalToF32(Negate(child_eval)))
        set(ev) == [node |-> [upd EXCEPT !.evaluation = ev], ret |-> ev,
                    branch |-> "promote"]
    IN CASE IsLoss(child_eval) -> set(WinPromotion(child_eval))
         [] IsWin(child_eval) /\ AllWin(evals) ->
                IF KnownPlies(evals) = {}
                THEN [node |-> upd, ret |-> NoEval, branch |-> "panic"]
                ELSE set(LossPromotion(evals))
         [] (IsDraw(child_eval) \/ IsWin(child_eval))
              /\ ~(IsWin(child_eval) /\ AllWin(evals)) /\ AllWinOrDraw(evals) ->
                IF DrawPlies(evals) = {}
                THEN [node |-> upd, ret |-> NoEval, branch |-> "panic"]
                ELSE set(DrawPromotion(evals))
         [] OTHER -> [node |-> upd, ret |-> BackupReturn(upd, child_eval),
                      branch |-> "backup"]

----------------------------------------------------------------------------
(* Selection in simulate.                                                  *)

\* the first of the maximal elements in place of the last
MaxByKeyFirst(E, key) ==
    IF E = {} THEN 0
    ELSE CHOOSE i \in E : \A j \in E : key[j] < key[i] \/ (key[j] = key[i] /\ i <= j)

\* Iterator::max_by_key over the indices E with keys key[i]: the last of the
\* maximal elements; 0 for an empty E (None).
MaxByKey(E, key) ==
    IF E = {} THEN 0
    ELSE CHOOSE i \in E : \A j \in E : key[j] < key[i] \/ (key[j] = key[i] /\ j <= i)

\* the filter left out
EligibleAll(evals) == DOMAIN evals

\* the indices of the children that pass the filter
Eligible(evals) == {i \in DOMAIN evals : ~IsWin(evals[i])}

\* the visits left out of the score
ScoreWithoutVisits(child, parent_visits) == child.policy * (parent_visits + 1)

\* policy - visit_count / (parent.visit_count + 1), times
\* PriorDen * (parent.visit_count + 1).  The order of these integers is the
\* order of the f32 scores: the priors are f32 values, two scores that differ
\* differ by at least 1 / (PriorDen * (MaxSims + 2)), far above the rounding
\* of the quotient, and two scores are equal only for equal operands or for
\* quotients that are f32 values themselves.
Score(child, parent_visits) ==
    child.policy * (parent_visits + 1) - PriorDen * child.visit_count

\* the index of the selected child of node n, 0 when there is none
SelectChild(t, n) ==
    MaxByKey(Eligible(Evaluations(t, n)),
             [i \in DOMAIN t[n].children |->
                 Score(t[t[n].children[i]], t[n].visit_count)])

----------------------------------------------------------------------------
(* simulate.  The result of a call on node n of tree t: the tree and the   *)
(* sample histories after it, the returned Eval, whether it panicked, and  *)
(* the frames of the call, outermost first.                                *)

Frame(n, branch, child, ret) ==
    [node |-> n, branch |-> branch, child |-> child, ret |-> ret]

\* the children built in the reverse of the order of the actions
ExpandReversed(t, n) ==
    LET actions == PopulateActions(n)
        fresh == [c \in {actions[i] : i \in DOMAIN actions} |->
                    FromPolicy(AgentPolicy(
                        CHOOSE i \in DOMAIN actions : actions[i] = c, Len(actions)))]
    IN fresh @@ [t EXCEPT ![n].children =
                              [i \in DOMAIN actions |-> actions[Len(actions) + 1 - i]],
                          ![n].evaluation = EvalValue(AgentValue(n))]

\* expansion of the non-terminal node n of t (n already counted as visited)
Expand(t, n) ==
    LET actions == PopulateActions(n)
        fresh == [c \in {actions[i] : i \in DOMAIN actions} |->
                    FromPolicy(AgentPolicy(
                        CHOOSE i \in DOMAIN actions : actions[i] = c, Len(actions)))]
    IN fresh @@ [t EXCEPT ![n].children = actions,
                          ![n].evaluation = EvalValue(AgentValue(n))]

\* the terminal outcome left out of the node
InitTerminalNotStored(node, term) == node

\* self.evaluation = terminal.into()
InitTerminal(node, term) == [node EXCEPT !.evaluation = TerminalEval(term)]

\* the visit counted twice
CountVisitTwice(node) == [node EXCEPT !.visit_count = @ + 2]

\* self.visit_count += 1
CountVisit(node) == [node EXCEPT !.visit_count = @ + 1]

RECURSIVE Simulate(_, _, _)
Simulate(t, h, n) ==
    LET t1 == [t EXCEPT ![n] = CountVisit(t[n])]
        node == t1[n]
        done(tt, hh, branch, child, ret, rest) ==
            [tree |-> tt, hist |-> hh, ret |-> ret, panic |-> branch = "panic",
             log |-> <<Frame(n, branch, child, ret)>> \o rest]
    IN
    IF IsKnown(node.evaluation) THEN
        IF debug /\ IsWin(node.evaluation)
        THEN done(t1, h, "panic", 0, NoEval, <<>>)
        ELSE done(t1, h, "known", 0, node.evaluation, <<>>)
    ELSE IF NeedsInitialization(node) THEN
        IF Terminal(n) # "None"
        THEN LET t2 == [t1 EXCEPT ![n] = InitTerminal(node, Terminal(n))]
             IN done(t2, h, "terminal", 0, t2[n].evaluation, <<>>)
        ELSE LET t2 == Expand(t1, n)
             IN done(t2,
                     [c \in DOMAIN t2 |->
                        IF c = n THEN <<AgentValue(n)>>
                        ELSE IF c \in DOMAIN h THEN h[c] ELSE <<>>],
                     "expand", 0, t2[n].evaluation, <<>>)
    ELSE
        LET i == SelectChild(t1, n)
        IN IF i = 0 THEN done(t1, h, "panic", 0, NoEval, <<>>)
           ELSE
           LET c == node.children[i]
               r == Simulate(t1, h, c)
           IN IF r.panic THEN done(r.tree, r.hist, "panic", c, NoEval, r.log)
              ELSE
              LET pr == PropagateChildEval(r.tree[n], Evaluations(r.tree, n), r.ret)
              IN done([r.tree EXCEPT ![n] = pr.node],
                      IF pr.branch = "panic" THEN r.hist
                      ELSE [r.hist EXCEPT ![n] = Append(@, EvalToF32(Negate(r.ret)))],
                      pr.branch, c, pr.ret, r.log)

----------------------------------------------------------------------------
(* The caller: a root node, created empty, on which simulate is called.    *)

NoPick == [index |-> 0, pi |-> <<>>, completed |-> <<>>]

Init ==
    /\ game \in DOMAIN Games
    /\ prior \in Priors
    /\ valtab \in ValTabs
    /\ debug \in BOOLEAN
    /\ tree = (1 :> NodeDefault)
    /\ status = "running"
    /\ calls = 0
    /\ pre = (1 :> NodeDefault)
    /\ last = <<>>
    /\ hist = (1 :> <<>>)
    /\ picked = NoPick
    /\ noisy = Idle
    /\ batch = Idle
    /\ codec = Idle
    /\ play = Idle

\* root.simulate(game.clone(), &mut actions, &agent)
SimulateRoot ==
    /\ status = "running"
    /\ calls < MaxSims
    /\ LET r == Simulate(tree, hist, 1)
       IN /\ tree' = r.tree
          /\ hist' = r.hist
          /\ last' = r.log
          /\ status' = IF r.panic THEN "panicked" ELSE "running"
    /\ pre' = tree
    /\ calls' = calls + 1
    /\ picked' = NoPick
    /\ UNCHANGED <<game, prior, valtab, debug, noisy, batch, codec, play>>

\* the completed value of a child in improved_policy: the scalar (.into())
\* of the parent's evaluation or of the negated evaluation of the child, and
\* which of the two it was taken from
CompletedValue(node, child) ==
    IF NeedsInitialization(child)
    THEN [from |-> "parent", value |-> EvalToF32(node.evaluation)]
    ELSE [from |-> "child", value |-> EvalToF32(Negate(child.evaluation))]

\* improved_policy(beta): the softmax of sigma(completed value) + logit, one
\* positive weight per child.  Its exponentials are not computed here: the
\* weights are any of the vectors over PiLevels (times 1 / PriorDen), which
\* hold equal and unequal weights in every order.
PiLevels == {1, PriorDen - 1}
ImprovedPolicies(n) == [1..n -> PiLevels]

\* pi - visit_count / (self.visit_count + 1), times PriorDen * (visit_count + 1)
ImprovedScore(pi, child, parent_visits) ==
    pi * (parent_visits + 1) - PriorDen * child.visit_count

\* root.select_with_improved_policy(beta): the index of a child (from 1), and
\* a panic (expect) when no child passes the filter.
SelectWithImprovedPolicy ==
    /\ status = "running"
    /\ \E pi \in ImprovedPolicies(Len(tree[1].children)) :
          LET i == MaxByKey(Eligible(Evaluations(tree, 1)),
                            [j \in DOMAIN tree[1].children |->
                                ImprovedScore(pi[j], tree[tree[1].children[j]],
                                              tree[1].visit_count)])
          IN /\ picked' = [index |-> i, pi |-> pi,
                            completed |-> [j \in DOMAIN tree[1].children |->
                                 CompletedValue(tree[1], tree[tree[1].children[j]])]]
             /\ status' = IF i = 0 THEN "panicked" ELSE "running"
    /\ UNCHANGED <<game, prior, valtab, debug, tree, calls, pre, last, hist>>
    /\ UNCHANGED <<noisy, batch, codec, play>>

Next == SimulateRoot \/ SelectWithImprovedPolicy

Spec == Init /\ [][Next]_vars

\* One iteration of the caller's loop, as it shows on `calls`.  Simulate is
\* defined on every tree, so SimulateRoot is enabled exactly when this is, and
\* every SimulateRoot step is one.
LoopIteration == status = "running" /\ calls < MaxSims /\ calls' = calls + 1

\* simulate called on the root again and again, as in the tests' loops
\* (for _ in 0..N { root.simulate(..) }): the loop runs to its end.
SimSpec == Init /\ [][SimulateRoot]_vars /\ WF_calls(LoopIteration)

\* no search is running
SearchIdle ==
    /\ game = 1 /\ prior = "uniform" /\ valtab = <<0, 0>> /\ debug = FALSE
    /\ tree = (1 :> NodeDefault) /\ status = "idle" /\ calls = 0
    /\ pre = (1 :> NodeDefault) /\ last = <<>> /\ hist = (1 :> <<>>) /\ picked = NoPick

----------------------------------------------------------------------------
(* apply_dirichlet (search/node/noise.rs).  The node it is called on has   *)
(* a visit_count and children with a probability and a logit each.  A      *)
(* logit is kept by the class of f32 it is: ln of a positive probability   *)
(* is finite, ln(0) is -inf, ln of a negative number is NaN.               *)

Ln(p) ==
    [class |-> IF p.m > 0 THEN "finite" ELSE IF p.m = 0 THEN "neg_inf" ELSE "nan",
     of |-> p]

NoisyChild(p) == [probability |-> p, logit |-> Ln(p)]

\* the multiples of 2^-NoiseBits in [0, 1]
NoiseLevels == {Canon(k, -NoiseBits) : k \in 0..Pow2(NoiseBits)}
\* ratio: any of them, or 3/2
Ratios == NoiseLevels \cup {Canon(3, -1)}
\* alpha: 0 or 1/2
Alphas == {F32Zero, Canon(1, -1)}

\* Dirichlet::new(&vec![alpha; n]) is Ok for two or more positive
\* parameters, Err for fewer (AlphaTooShort) or for alpha <= 0
DirichletNew(alpha, n) == n >= 2 /\ alpha.m > 0

\* dirichlet.sample(rng): n values in [0, 1] of sum 1.  A value can be 0.0:
\* its gamma variate underflows for a small alpha.
RECURSIVE SumLevels(_)
SumLevels(v) ==
    IF v = <<>> THEN 0
    ELSE v[Len(v)].m * Pow2(v[Len(v)].e + NoiseBits) + SumLevels(SubSeq(v, 1, Len(v) - 1))

DirichletSamples(n) == {v \in [1..n -> NoiseLevels] : SumLevels(v) = Pow2(NoiseBits)}

\* the assertion left out
PolicyInitializedAlways(node) == TRUE

\* assert!(self.visit_count > 0)
PolicyInitialized(node) == node.visit_count > 0

\* child.probability * (1.0 - ratio) + noise * ratio
MixProbability(p, noise, ratio) ==
    F32Add(F32Mul(p, F32Sub(F32One, ratio)), F32Mul(noise, ratio))

\* the for_each over the children from the i-th on: each probability is
\* assigned, then its logit, where NotNan::new(..).expect panics on NaN and
\* leaves that logit and the later children as they were
RECURSIVE MixChildren(_, _, _, _)
MixChildren(children, samples, ratio, i) ==
    IF i > Len(children) \/ i > Len(samples)
    THEN [children |-> children, stage |-> "returned"]
    ELSE LET q == MixProbability(children[i].probability, samples[i], ratio)
         IN IF Ln(q).class = "nan"
            THEN [children |-> [children EXCEPT ![i].probability = q], stage |-> "logit"]
            ELSE MixChildren([children EXCEPT ![i] = NoisyChild(q)], samples, ratio, i + 1)

\* the children after the call and the place the call ended at: "assert",
\* "dirichlet" (unwrap), "logit" (expect), or "returned"
ApplyDirichletTo(node, alpha, ratio, samples) ==
    IF ~PolicyInitialized(node) THEN [children |-> node.children, stage |-> "assert"]
    ELSE IF ~DirichletNew(alpha, Len(node.children))
    THEN [children |-> node.children, stage |-> "dirichlet"]
    ELSE MixChildren(node.children, samples, ratio, 1)

\* the nodes apply_dirichlet is called on: positive probabilities, the
\* logits their logarithms
NoisyNodes ==
    UNION {{[visit_count |-> v, children |-> [i \in 1..n |-> NoisyChild(ps[i])],
             stage |-> "new", before |-> <<>>, alpha |-> F32Zero, ratio |-> F32Zero,
             samples |-> <<>>] :
               v \in 0..2, ps \in [1..n -> NoiseLevels \ {F32Zero}]} : n \in 0..MaxKids}

NoiseInit ==
    SearchIdle /\ noisy \in NoisyNodes /\ batch = Idle /\ codec = Idle /\ play = Idle

\* node.apply_dirichlet(rng, alpha, ratio)
ApplyDirichlet ==
    /\ noisy # Idle
    /\ noisy.stage = "new"
    /\ \E alpha \in Alphas, ratio \in Ratios :
          \E samples \in DirichletSamples(Len(noisy.children)) \cup {<<>>} :
             /\ samples = <<>> <=> ~(PolicyInitialized(noisy)
                                       /\ DirichletNew(alpha, Len(noisy.children)))
             /\ LET r == ApplyDirichletTo(noisy, alpha, ratio, samples)
                IN noisy' = [noisy EXCEPT !.children = r.children, !.stage = r.stage,
                                          !.before = noisy.children, !.alpha = alpha,
                                          !.ratio = ratio, !.samples = samples]
    /\ UNCHANGED <<searchVars, batch, codec, play>>

NoiseSpec == NoiseInit /\ [][ApplyDirichlet]_vars

----------------------------------------------------------------------------
(* The batched agent SafeCracker of search/env.rs, over SafeCrack          *)
(* environments with a key of one digit.                                   *)

SafeCrackKey == <<1>>

\* SafeCrack::new(key), and Environment::step
SafeCrackNew == [key |-> SafeCrackKey, tried |-> <<>>, active |-> TRUE]
SafeCrackStep(env, digit) ==
    [env EXCEPT !.tried = IF env.active THEN Append(@, digit) ELSE @,
                !.active = ~env.active]

\* the environments after zero, one or two steps, with the digits 1 and 2
SafeCracks ==
    LET one == {SafeCrackStep(SafeCrackNew, d) : d \in 1..2}
    IN {SafeCrackNew} \cup one \cup {SafeCrackStep(e, 0) : e \in one}

\* self.tried.starts_with(&self.key)
Solved(env) ==
    /\ Len(env.tried) >= Len(env.key)
    /\ SubSeq(env.tried, 1, Len(env.key)) = env.key

\* Environment::populate_actions of SafeCrack
SafeCrackActions(env) == IF env.active THEN [i \in 1..10 |-> i - 1] ELSE <<"None">>

\* the filter negated
MaskKeepsInactive(mask_entry) == ~mask_entry

\* .filter(|(_, mask)| **mask)
MaskKeeps(mask_entry) == mask_entry

\* (Policy, if env.active { 1.0 } else { -1.0 } * f32::from(env.solved()), 0.0)
SlotTriple(env) ==
    [policy |-> "Policy",
     value |-> F32Mul(IF env.active THEN F32One ELSE F32Neg(F32One),
                      IF Solved(env) THEN F32One ELSE F32Zero),
     uncertainty |-> F32Zero]

\* zip stops at the end of the shortest of its sequences
ZipLen(env_batch, actions_batch, mask) ==
    CHOOSE n \in {Len(env_batch), Len(actions_batch), Len(mask)} :
        n <= Len(env_batch) /\ n <= Len(actions_batch) /\ n <= Len(mask)

\* the slots from the i-th on: zip, filter, map, collect
RECURSIVE CollectFrom(_, _, _, _)
CollectFrom(env_batch, actions_batch, mask, i) ==
    IF i > ZipLen(env_batch, actions_batch, mask) THEN <<>>
    ELSE (IF MaskKeeps(mask[i]) THEN <<SlotTriple(env_batch[i])>> ELSE <<>>)
            \o CollectFrom(env_batch, actions_batch, mask, i + 1)

PolicyValueUncertainty(env_batch, actions_batch, mask) ==
    CollectFrom(env_batch, actions_batch, mask, 1)

\* the calls: a batch of environments, their actions, one mask entry each
Batches ==
    UNION {{[env_batch |-> envs, actions_batch |-> [i \in 1..n |-> SafeCrackActions(envs[i])],
             mask |-> mask, called |-> FALSE, result |-> <<>>] :
               envs \in [1..n -> SafeCracks], mask \in [1..n -> BOOLEAN]} : n \in 0..MaxBatch}

BatchInit ==
    SearchIdle /\ noisy = Idle /\ batch \in Batches /\ codec = Idle /\ play = Idle

\* agent.policy_value_uncertainty(env_batch, actions_batch, mask, context)
EvaluateBatch ==
    /\ batch # Idle
    /\ ~batch.called
    /\ batch' = [batch EXCEPT !.called = TRUE,
                              !.result = PolicyValueUncertainty(batch.env_batch,
                                                                batch.actions_batch,
                                                                batch.mask)]
    /\ UNCHANGED <<searchVars, noisy, codec, play>>

BatchSpec == BatchInit /\ [][EvaluateBatch]_vars

----------------------------------------------------------------------------
(* Target and its text (target.rs).  A text is a sequence of tokens: the   *)
(* separators ";", "," and ":", the line end, and the texts of a position  *)
(* (TPS), of a move and of an f32, none of which holds ";" or ":" and, for *)
(* a move or an f32, ",".                                                  *)

\* f32 NaN, which the f32 of the search never is
F32NaN == [nan |-> TRUE]
\* a == b on f32: NaN equals nothing
F32Eq(a, b) == a # F32NaN /\ b # F32NaN /\ a = b

\* Display and FromStr of f32: the shortest decimal that parses back to the
\* same f32, "NaN" for NaN
FloatTexts == <<"0", "0.5", "1", "NaN">>
FloatValues == <<F32Zero, Canon(1, -1), F32One, F32NaN>>
FloatText(v) == FloatTexts[CHOOSE i \in DOMAIN FloatValues : FloatValues[i] = v]
ParseFloat(tokens) ==
    IF Len(tokens) = 1 /\ \E i \in DOMAIN FloatTexts : FloatTexts[i] = tokens[1]
    THEN [ok |-> TRUE,
          value |-> FloatValues[CHOOSE i \in DOMAIN FloatTexts : FloatTexts[i] = tokens[1]]]
    ELSE [ok |-> FALSE, value |-> F32Zero]

\* Display and FromStr of a move (PTN)
MoveTexts == <<"a1", "b2">>
Moves == DOMAIN MoveTexts
MoveText(a) == MoveTexts[a]
ParseMove(tokens) ==
    IF Len(tokens) = 1 /\ \E a \in Moves : MoveTexts[a] = tokens[1]
    THEN [ok |-> TRUE, value |-> CHOOSE a \in Moves : MoveTexts[a] = tokens[1]]
    ELSE [ok |-> FALSE, value |-> 0]

\* A position: what its TPS holds (board, side to move, move number), and
\* reversible_plies, which a TPS does not hold.
TpsTexts == <<"x3/x3/x3 1 1", "x3/x3/1,x2 2 1">>
TakGames == {[board |-> b, reversible_plies |-> r] : b \in DOMAIN TpsTexts, r \in 0..1}
\* Tps::from(game) and its Display
TpsText(env) == TpsTexts[env.board]
\* str::parse::<Tps> and Game::from(tps)
ParseTps(tokens) ==
    IF Len(tokens) = 1 /\ \E b \in DOMAIN TpsTexts : TpsTexts[b] = tokens[1]
    THEN [ok |-> TRUE,
          value |-> [board |-> CHOOSE b \in DOMAIN TpsTexts : TpsTexts[b] = tokens[1],
                     reversible_plies |-> 0]]
    ELSE [ok |-> FALSE, value |-> 0]

\* the items of tokens between the separators sep (str::split): one more
\* than there are separators, so one empty item for an empty text
RECURSIVE SplitAt(_, _, _)
SplitAt(tokens, sep, item) ==
    IF tokens = <<>> THEN <<item>>
    ELSE IF Head(tokens) = sep THEN <<item>> \o SplitAt(Tail(tokens), sep, <<>>)
    ELSE SplitAt(Tail(tokens), sep, Append(item, Head(tokens)))

Split(tokens, sep) == SplitAt(tokens, sep, <<>>)

\* str::split_once: the parts before and after the first sep
SplitOnce(tokens, sep) ==
    IF \E i \in DOMAIN tokens : tokens[i] = sep
    THEN LET i == CHOOSE j \in DOMAIN tokens :
                     tokens[j] = sep /\ \A k \in 1..(j - 1) : tokens[k] # sep
         IN [ok |-> TRUE, left |-> SubSeq(tokens, 1, i - 1),
             right |-> SubSeq(tokens, i + 1, Len(tokens))]
    ELSE [ok |-> FALSE, left |-> <<>>, right |-> <<>>]

\* str::trim: the line ends at both ends removed
RECURSIVE Trim(_)
Trim(tokens) ==
    IF tokens = <<>> THEN tokens
    ELSE IF Head(tokens) = "\n" THEN Trim(Tail(tokens))
    ELSE IF tokens[Len(tokens)] = "\n" THEN Trim(SubSeq(tokens, 1, Len(tokens) - 1))
    ELSE tokens

\* .map(|(mov, p)| format!("{mov}:{p}")).collect::<Vec<_>>().join(",")
RECURSIVE JoinPolicy(_)
JoinPolicy(policy) ==
    IF policy = <<>> THEN <<>>
    ELSE LET rest == SubSeq(policy, 1, Len(policy) - 1)
             e == policy[Len(policy)]
         IN JoinPolicy(rest) \o (IF rest = <<>> THEN <<>> ELSE <<",">>)
               \o <<MoveText(e.action), ":", FloatText(e.p)>>

\* value and ube written in the other order
DisplayTargetSwapped(target) ==
    <<TpsText(target.env), ";", FloatText(target.ube), ";", FloatText(target.value), ";">>
        \o JoinPolicy(target.policy) \o <<"\n">>

\* impl Display for Target: writeln!(f, "{tps};{value};{ube};{policy}")
DisplayTarget(target) ==
    <<TpsText(target.env), ";", FloatText(target.value), ";", FloatText(target.ube), ";">>
        \o JoinPolicy(target.policy) \o <<"\n">>

NoTarget == [env |-> 0, policy |-> <<>>, value |-> F32Zero, ube |-> F32Zero]
ParseError(err) == [ok |-> FALSE, err |-> err, target |-> NoTarget]

\* .map(|s| s.split_once(':') ... (a.parse()?, p.parse()?)) over the items
ParseEntry(item) ==
    LET sp == SplitOnce(item, ":")
        a == ParseMove(sp.left)
        pp == ParseFloat(sp.right)
    IN IF ~sp.ok THEN [ok |-> FALSE, err |-> "WrongPolicyFormat"]
       ELSE IF ~a.ok THEN [ok |-> FALSE, err |-> "Action"]
       ELSE IF ~pp.ok THEN [ok |-> FALSE, err |-> "Float"]
       ELSE [ok |-> TRUE, err |-> "", entry |-> [action |-> a.value, p |-> pp.value]]

\* impl FromStr for Target
FromStrTarget(text) ==
    LET fields == Split(Trim(text), ";")
        tps == ParseTps(fields[1])
        value == ParseFloat(fields[2])
        ube == ParseFloat(fields[3])
        items == Split(fields[4], ",")
        entries == [i \in DOMAIN items |-> ParseEntry(items[i])]
        bad == {i \in DOMAIN entries : ~entries[i].ok}
    IN IF ~tps.ok THEN ParseError("Tps")
       ELSE IF Len(fields) < 2 THEN ParseError("MissingValue")
       ELSE IF ~value.ok THEN ParseError("Float")
       ELSE IF Len(fields) < 3 THEN ParseError("MissingUbe")
       ELSE IF ~ube.ok THEN ParseError("Float")
       ELSE IF Len(fields) < 4 THEN ParseError("MissingPolicy")
       ELSE IF bad # {} THEN ParseError(entries[CHOOSE i \in bad : \A j \in bad : i <= j].err)
       ELSE [ok |-> TRUE, err |-> "",
             target |-> [env |-> tps.value,
                         policy |-> [i \in DOMAIN entries |-> entries[i].entry],
                         value |-> value.value, ube |-> ube.value]]

\* #[derive(PartialEq)] of Target
TargetEq(a, b) ==
    /\ a.env = b.env
    /\ Len(a.policy) = Len(b.policy)
    /\ \A i \in DOMAIN a.policy :
          a.policy[i].action = b.policy[i].action /\ F32Eq(a.policy[i].p, b.policy[i].p)
    /\ F32Eq(a.value, b.value)
    /\ F32Eq(a.ube, b.ube)

Floats == {FloatValues[i] : i \in DOMAIN FloatValues}
Weights == Floats \ {F32Zero}

Targets ==
    UNION {{[env |-> env, policy |-> policy, value |-> value, ube |-> ube] :
               env \in TakGames, value \in Floats, ube \in Floats,
               policy \in [1..n -> {[action |-> a, p |-> w] : a \in Moves, w \in Weights}]} :
           n \in 0..MaxPolicy}

CodecInit ==
    /\ SearchIdle /\ noisy = Idle /\ batch = Idle /\ play = Idle
    /\ codec \in {[original |-> t, done |-> FALSE, text |-> <<>>,
                    parsed |-> ParseError(""), text_again |-> <<>>] : t \in Targets}

\* string = target.to_string(); recovered = string.parse();
\* string_again = recovered.to_string()
RoundTrip ==
    /\ codec # Idle
    /\ ~codec.done
    /\ LET string == DisplayTarget(codec.original)
           recovered == FromStrTarget(string)
       IN codec' = [codec EXCEPT !.done = TRUE, !.text = string, !.parsed = recovered,
                                 !.text_again = IF recovered.ok
                                                THEN DisplayTarget(recovered.target)
                                                ELSE <<>>]
    /\ UNCHANGED <<searchVars, noisy, batch, play>>

CodecSpec == CodecInit /\ [][RoundTrip]_vars

----------------------------------------------------------------------------
(* Self-play (train/src/self_play.rs).  Each thread runs `run`: rounds of  *)
(* self_play followed by a truncation of the replay buffer, which all      *)
(* threads share behind a RwLock; what a thread does under the write lock  *)
(* is one step.  The position of a game (env) is the sequence of the       *)
(* actions played in it since its opening.  A replay is a position and the *)
(* actions played from it.  The buffer holds the newest replay first; each *)
(* entry carries, as history, the number of the push that put it there and *)
(* whether it came from a finished game or from the salvage.               *)

Slots == 1..BATCH_SIZE
\* the action gumbel_sequential_halving (or the weighted sampling of an
\* opening) returns for a game: actions are opaque to self_play, which only
\* copies them, so each is named by the ply it is played at in its game
TopAction(env) == Len(env) + 1

SaturatingSub(a, b) == IF a > b THEN a - b ELSE 0

\* new_opening(env, actions, rng)
NewOpening == <<>>

NewReplay(env) == [env |-> env, actions |-> <<>>]

\* the window one action wider
WindowFromWider(len) == SaturatingSub(len, STEP + 1)

\* let from = replays.len().saturating_sub(STEP)
WindowFrom(len) == SaturatingSub(len, STEP)

\* replays.push(Replay { env: env.clone(), .. }), then
\* for replay in &mut replays[from..] { replay.actions.push(*action) }
UpdateReplaysOf(replays, env, action) ==
    LET pushed == Append(replays, NewReplay(env))
        from == WindowFrom(Len(pushed))
    IN [i \in DOMAIN pushed |->
           IF i > from THEN [pushed[i] EXCEPT !.actions = Append(@, action)]
           ELSE pushed[i]]

\* lock.push_front(replay) for each of replays in order: the last of them
\* ends up at the front
RECURSIVE PushFrontAll(_, _, _, _)
PushFrontAll(buffer, replays, stamp, how) ==
    IF replays = <<>> THEN buffer
    ELSE PushFrontAll(<<[replay |-> Head(replays), stamp |-> stamp + 1, how |-> how]>>
                          \o buffer,
                      Tail(replays), stamp + 1, how)

\* the concatenation of the replay lists of the slots in S, in slot order
RECURSIVE Flatten(_, _)
Flatten(replays_batch, S) ==
    IF S = {} THEN <<>>
    ELSE LET i == CHOOSE j \in S : \A k \in S : j <= k
         IN replays_batch[i] \o Flatten(replays_batch, S \ {i})

\* every pending replay taken
SalvageLenAll(len) == len

\* let len = replays.len().saturating_sub(STEP)
SalvageLen(len) == SaturatingSub(len, STEP)

\* replays.drain(..).take(len)
Salvaged(replays) == SubSeq(replays, 1, SalvageLen(Len(replays)))

\* the newest entries removed
TruncateFront(buffer) ==
    IF Len(buffer) > MAXIMUM_REPLAY_BUFFER_SIZE
    THEN SubSeq(buffer, Len(buffer) - MAXIMUM_REPLAY_BUFFER_SIZE + 1, Len(buffer))
    ELSE buffer

\* if lock.len() > MAXIMUM_REPLAY_BUFFER_SIZE { lock.truncate(..) }
Truncate(buffer) ==
    IF Len(buffer) > MAXIMUM_REPLAY_BUFFER_SIZE
    THEN SubSeq(buffer, 1, MAXIMUM_REPLAY_BUFFER_SIZE)
    ELSE buffer

\* a thread at the start of run: empty replay lists.  The other fields are
\* history: before, the replay lists before the last step; top_actions, the
\* actions of the last step; updated and stepped, the replay lists and the
\* positions of the last step before its refresh; at_salvage, the replay
\* lists before the last salvage; moved, the replays it pushed.
NewThread ==
    [pc |-> "start", round |-> 0, step |-> 0,
     envs |-> [i \in Slots |-> NewOpening],
     replays_batch |-> [i \in Slots |-> <<>>],
     before |-> [i \in Slots |-> <<>>],
     top_actions |-> [i \in Slots |-> 0],
     updated |-> [i \in Slots |-> <<>>],
     stepped |-> [i \in Slots |-> NewOpening],
     at_salvage |-> [i \in Slots |-> <<>>],
     moved |-> <<>>]

NoCut == [before |-> <<>>, after |-> <<>>]

PlayInit ==
    /\ SearchIdle /\ noisy = Idle /\ batch = Idle /\ codec = Idle
    /\ play = [threads |-> [t \in 1..Threads |-> NewThread],
               replay_buffer |-> <<>>,
               pushes |-> 0,
               cut |-> NoCut]

Others == UNCHANGED <<searchVars, noisy, batch, codec>>

\* self_play, lines 135-138: new openings for all games
StartRound(t) ==
    /\ play.threads[t].pc = "start"
    /\ play' = [play EXCEPT !.threads[t].pc = "step",
                            !.threads[t].step = 0,
                            !.threads[t].envs = [i \in Slots |-> NewOpening]]
    /\ Others

\* self_play, lines 141-207, one step of the games: the actions of the step
\* are chosen, the replays updated and the step taken in the environments
\* (all of it the thread's own data); then, under the write lock, the games
\* that are over (the slots of finished) hand their replays to the buffer
\* and start anew
PlayStep(t) ==
    /\ play.threads[t].pc = "step"
    /\ \E finished \in SUBSET Slots :
          LET th == play.threads[t]
              top_actions == [i \in Slots |-> TopAction(th.envs[i])]
              updated == [i \in Slots |->
                            UpdateReplaysOf(th.replays_batch[i], th.envs[i], top_actions[i])]
              stepped == [i \in Slots |-> Append(th.envs[i], top_actions[i])]
              drained == Flatten(updated, finished)
          IN play' = [play EXCEPT
                 !.threads[t].pc =
                     IF th.step + 1 < STEPS_BEFORE_CHECKING_NETWORK
                     THEN "step" ELSE "salvage",
                 !.threads[t].step = th.step + 1,
                 !.threads[t].before = th.replays_batch,
                 !.threads[t].top_actions = top_actions,
                 !.threads[t].updated = updated,
                 !.threads[t].stepped = stepped,
                 !.threads[t].envs =
                     [i \in Slots |-> IF i \in finished THEN NewOpening ELSE stepped[i]],
                 !.threads[t].replays_batch =
                     [i \in Slots |-> IF i \in finished THEN <<>> ELSE updated[i]],
                 !.replay_buffer =
                     PushFrontAll(play.replay_buffer, drained, play.pushes, "finished"),
                 !.pushes = play.pushes + Len(drained)]
    /\ Others

\* self_play, lines 210-218, under the write lock: the salvage
Salvage(t) ==
    /\ play.threads[t].pc = "salvage"
    /\ LET th == play.threads[t]
           moved == Flatten([i \in Slots |-> Salvaged(th.replays_batch[i])], Slots)
       IN play' = [play EXCEPT
              !.threads[t].pc = "truncate",
              !.threads[t].at_salvage = th.replays_batch,
              !.threads[t].moved = moved,
              !.threads[t].replays_batch = [i \in Slots |-> <<>>],
              !.replay_buffer =
                  PushFrontAll(play.replay_buffer, moved, play.pushes, "salvaged"),
              !.pushes = play.pushes + Len(moved)]
    /\ Others

\* run, lines 78-83, under the write lock, and the loop of run
TruncateBuffer(t) ==
    /\ play.threads[t].pc = "truncate"
    /\ play' = [play EXCEPT
           !.threads[t].pc =
               IF play.threads[t].round + 1 < MaxRounds THEN "start" ELSE "done",
           !.threads[t].round = play.threads[t].round + 1,
           !.replay_buffer = Truncate(play.replay_buffer),
           !.cut = [before |-> play.replay_buffer,
                    after |-> Truncate(play.replay_buffer)]]
    /\ Others

PlayNext ==
    \E t \in 1..Threads :
        \/ StartRound(t)
        \/ PlayStep(t)
        \/ Salvage(t)
        \/ TruncateBuffer(t)

PlaySpec == PlayInit /\ [][PlayNext]_vars

----------------------------------------------------------------------------
(* Notions the properties are stated with.                                 *)

Nodes == DOMAIN tree
Proven(ev) == ev.tag \in {"Win", "Loss", "Draw"}
ChildSet(t, n) == {t[n].children[i] : i \in DOMAIN t[n].children}
SetMin(S) == CHOOSE x \in S : \A y \in S : x <= y

\* the game-theoretic outcome of position p for the side to move at p
RECURSIVE Minimax(_)
Minimax(p) ==
    IF Terminal(p) # "None" THEN Terminal(p)
    ELSE LET outs == {Minimax(Env.kids[p][i]) : i \in DOMAIN Env.kids[p]}
         IN IF "Loss" \in outs THEN "Win"
            ELSE IF outs = {"Win"} THEN "Loss"
            ELSE "Draw"

----------------------------------------------------------------------------
(* C1: proof monotonicity.  In every step, a node whose evaluation is      *)
(* proven (Win, Loss or Draw) is still in the tree afterwards with the     *)
(* same evaluation, variant and ply.                                       *)
C1_ProofMonotonic ==
    [][\A n \in Nodes :
          Proven(tree[n].evaluation) =>
             n \in DOMAIN tree' /\ tree'[n].evaluation = tree[n].evaluation]_vars

\* simulate was called on a root that was already proven, and returned
C1_Witness ==
    /\ last # <<>>
    /\ last[1].branch = "known"
    /\ Proven(pre[1].evaluation)
    /\ pre[1].children # <<>>
    /\ tree[1].visit_count = pre[1].visit_count + 1

----------------------------------------------------------------------------
(* C2: soundness of proofs.  Every proven node holds the minimax outcome   *)
(* of its position.                                                        *)
C2_ProofsSound ==
    \A n \in Nodes : Proven(tree[n].evaluation) => tree[n].evaluation.tag = Minimax(n)

\* proofs of all three kinds have been propagated to nodes that are not terminal
C2_Witness ==
    /\ \E n \in Nodes : tree[n].children # <<>> /\ IsLoss(tree[n].evaluation)
    /\ \E n \in Nodes : tree[n].children # <<>> /\ IsWin(tree[n].evaluation)

----------------------------------------------------------------------------
(* C3: mate finding.  Under repeated simulate calls on the root of a       *)
(* position the side to move wins by force, with equal priors, the root    *)
(* evaluation eventually is Win; and whenever it is, the root has a child  *)
(* proven Loss whose position is lost for the opponent.                    *)
ForcedWinEqualPriors == Minimax(1) = "Win" /\ prior = "uniform"

HasWinningChild ==
    \E c \in ChildSet(tree, 1) : IsLoss(tree[c].evaluation) /\ Minimax(c) = "Loss"

C3_MateFinding ==
    /\ ForcedWinEqualPriors => <>IsWin(tree[1].evaluation)
    /\ [](ForcedWinEqualPriors /\ IsWin(tree[1].evaluation) => HasWinningChild)

\* the root was proven Win through the proof of a child that is not terminal
C3_Witness ==
    /\ ForcedWinEqualPriors
    /\ IsWin(tree[1].evaluation)
    /\ \E c \in ChildSet(tree, 1) : IsLoss(tree[c].evaluation) /\ tree[c].children # <<>>

----------------------------------------------------------------------------
(* Distances.  MateDist(p): the half-moves to the end of the game from a   *)
(* decided position p under best play (the winner hurries, the loser       *)
(* delays).  ProofLen(n): the half-moves of the line of play the proof     *)
(* stored at node n rests on.                                              *)

MinOr0(S) == IF S = {} THEN 0 ELSE SetMin(S)
MaxOr0(S) == IF S = {} THEN 0 ELSE SetMax(S)

RECURSIVE MateDist(_)
MateDist(p) ==
    LET kids == {Env.kids[p][i] : i \in DOMAIN Env.kids[p]}
    IN IF Terminal(p) # "None" THEN 0
       ELSE IF Minimax(p) = "Win"
       THEN 1 + MinOr0({MateDist(c) : c \in {k \in kids : Minimax(k) = "Loss"}})
       ELSE 1 + MaxOr0({MateDist(c) : c \in kids})

RECURSIVE ProofLen(_)
ProofLen(n) ==
    LET kids == ChildSet(tree, n)
        ev == tree[n].evaluation
    IN IF kids = {} THEN 0
       ELSE IF IsWin(ev)
       THEN 1 + MinOr0({ProofLen(c) : c \in {k \in kids : IsLoss(tree[k].evaluation)}})
       ELSE IF IsLoss(ev)
       THEN 1 + MaxOr0({ProofLen(c) : c \in kids})
       ELSE 1 + MaxOr0({ProofLen(c) : c \in {k \in kids : IsDraw(tree[k].evaluation)}})

----------------------------------------------------------------------------
(* C4, as claimed: a root proven Win(ply) has ply <= k, the number of      *)
(* plies of the forced win of the position.                                *)
C4_PlyAtMostShortest ==
    IsWin(tree[1].evaluation) => tree[1].evaluation.ply <= MateDist(1)

(* C4, amended: a root proven Win(ply) holds the negated evaluation of a   *)
(* child proven Loss, the line the search proved first, and ply is at most *)
(* the number of half-moves of that line (which may exceed k).             *)
C4_PlyOfProvenLine ==
    IsWin(tree[1].evaluation) /\ tree[1].children # <<>> =>
        /\ \E c \in ChildSet(tree, 1) :
              IsLoss(tree[c].evaluation) /\ tree[1].evaluation = Negate(tree[c].evaluation)
        /\ tree[1].evaluation.ply <= ProofLen(1)

\* the root was proven Win by a line longer than the shortest forced win
C4_Witness ==
    /\ IsWin(tree[1].evaluation)
    /\ tree[1].children # <<>>
    /\ ProofLen(1) > MateDist(1)

----------------------------------------------------------------------------
(* C5, as claimed: the ply of every proven node is the number of           *)
(* half-moves in which the outcome is realized along the proof's line.     *)
C5_PlyIsDistance ==
    \A n \in Nodes : Proven(tree[n].evaluation) => tree[n].evaluation.ply = ProofLen(n)

----------------------------------------------------------------------------
(* C6, as claimed: every simulate call returns the evaluation stored in    *)
(* its node when it returns.                                               *)
Returned(k) == last[k].branch # "panic"

C6_ReturnsStored ==
    \A k \in DOMAIN last : Returned(k) => last[k].ret = tree[last[k].node].evaluation

(* C6, amended: a call returns the stored evaluation when the node was     *)
(* proven, is terminal, was expanded or is promoted to a proof; after an   *)
(* unproven backup it returns Value(x), x the scalar of the negated        *)
(* evaluation its child returned, while the node stores Value(mean).       *)
C6_ReturnsStoredOrSample ==
    \A k \in DOMAIN last :
        Returned(k) =>
            IF last[k].branch = "backup"
            THEN /\ tree[last[k].node].evaluation.tag = "Value"
                 /\ last[k].ret = EvalValue(EvalToF32(Negate(last[k + 1].ret)))
            ELSE last[k].ret = tree[last[k].node].evaluation

\* a call with an unproven backup above a promotion to a proof
C6_Witness ==
    \E k \in DOMAIN last :
        /\ last[k].branch = "backup"
        /\ last[k].ret # tree[last[k].node].evaluation
        /\ \E j \in DOMAIN last : last[j].branch = "promote"

----------------------------------------------------------------------------
(* The selections of the last simulate call, read off its frames and the   *)
(* tree it began with (a selection sees its node counted once more and its *)
(* children untouched), and the last pick of select_with_improved_policy.  *)

Selections == {k \in DOMAIN last : last[k].child # 0}
SelKids(k) == pre[last[k].node].children
SelIndex(k) == CHOOSE i \in DOMAIN SelKids(k) : SelKids(k)[i] = last[k].child
SelEligible(k) == {j \in DOMAIN SelKids(k) : ~IsWin(pre[SelKids(k)[j]].evaluation)}
SelScore(k, j) ==
    pre[SelKids(k)[j]].policy * (pre[last[k].node].visit_count + 2)
        - PriorDen * pre[SelKids(k)[j]].visit_count

Picked == picked.index # 0
PickKid(j) == tree[tree[1].children[j]]
PickEligible == {j \in DOMAIN tree[1].children : ~IsWin(PickKid(j).evaluation)}
PickScore(j) == picked.pi[j] * (tree[1].visit_count + 1) - PriorDen * PickKid(j).visit_count

----------------------------------------------------------------------------
(* C7: pruning.  The child the selection step of simulate descends into,   *)
(* and the child select_with_improved_policy returns, is not a proven Win. *)
C7_NeverSelectsProvenWin ==
    /\ \A k \in Selections : ~IsWin(pre[last[k].child].evaluation)
    /\ Picked => ~IsWin(PickKid(picked.index).evaluation)

\* both selections passed over a proven Win child of a higher score
C7_Witness ==
    /\ \E k \in Selections : \E j \in DOMAIN SelKids(k) :
          /\ IsWin(pre[SelKids(k)[j]].evaluation)
          /\ SelScore(k, j) > SelScore(k, SelIndex(k))
    /\ Picked
    /\ \E j \in DOMAIN tree[1].children :
          IsWin(PickKid(j).evaluation) /\ PickScore(j) > PickScore(picked.index)

----------------------------------------------------------------------------
(* C8, as claimed: the selected child has the maximal score among the      *)
(* eligible children, and among those of maximal score it is the first.    *)
C8_TieFirst ==
    /\ \A k \in Selections : \A j \in SelEligible(k) :
          \/ SelScore(k, j) < SelScore(k, SelIndex(k))
          \/ SelScore(k, j) = SelScore(k, SelIndex(k)) /\ SelIndex(k) <= j
    /\ Picked => \A j \in PickEligible :
          \/ PickScore(j) < PickScore(picked.index)
          \/ PickScore(j) = PickScore(picked.index) /\ picked.index <= j

(* C8, amended: the selected child has the maximal score among the         *)
(* eligible children, and among those of maximal score it is the last in   *)
(* child order (max_by_key returns the last maximum).                      *)
C8_TieLast ==
    /\ \A k \in Selections : \A j \in SelEligible(k) :
          \/ SelScore(k, j) < SelScore(k, SelIndex(k))
          \/ SelScore(k, j) = SelScore(k, SelIndex(k)) /\ j <= SelIndex(k)
    /\ Picked => \A j \in PickEligible :
          \/ PickScore(j) < PickScore(picked.index)
          \/ PickScore(j) = PickScore(picked.index) /\ j <= picked.index

\* both selections chose among several eligible children of the maximal score
C8_Witness ==
    /\ \E k \in Selections : \E j \in SelEligible(k) :
          j # SelIndex(k) /\ SelScore(k, j) = SelScore(k, SelIndex(k))
    /\ Picked
    /\ \E j \in PickEligible :
          j # picked.index /\ PickScore(j) = PickScore(picked.index)

----------------------------------------------------------------------------
(* C9, as claimed: a node has no children if and only if its visit_count   *)
(* is at most 1 or it is a proven terminal node.                           *)
ProvenTerminal(n) == Terminal(n) # "None" /\ Proven(tree[n].evaluation)

C9_EmptyIffAtMostOneVisit ==
    \A n \in Nodes :
        tree[n].children = <<>> <=> (tree[n].visit_count <= 1 \/ ProvenTerminal(n))

(* C9, amended: a node has no children if and only if its visit_count is 0 *)
(* or it is a proven terminal node (the first visit expands a node that is *)
(* not terminal, so a node visited once has its children).                 *)
C9_EmptyIffUnvisited ==
    \A n \in Nodes :
        tree[n].children = <<>> <=> (tree[n].visit_count = 0 \/ ProvenTerminal(n))

\* a node visited once with children, a proven terminal node, and a node
\* not visited yet
C9_Witness ==
    /\ \E n \in Nodes : tree[n].visit_count = 1 /\ tree[n].children # <<>>
    /\ \E n \in Nodes : tree[n].visit_count >= 1 /\ ProvenTerminal(n)
    /\ \E n \in Nodes : tree[n].visit_count = 0

----------------------------------------------------------------------------
(* The samples of a node (hist): the oracle's estimate stored at           *)
(* expansion, then the scalars of negate(child_eval) backed up since, each *)
(* of them -1, 0 or 1.                                                     *)

Completed == last = <<>> \/ last[1].branch # "panic"
Averaged == {n \in Nodes : tree[n].evaluation.tag = "Value" /\ tree[n].visit_count >= 1}

RECURSIVE SumSamples(_)
SumSamples(h) ==
    IF h = <<>> THEN 0 ELSE h[Len(h)].m * Pow2(h[Len(h)].e) + SumSamples(SubSeq(h, 1, Len(h) - 1))

\* the f32 nearest to the exact average of the samples
NearestMean(h) == F32DivInt(F32OfInt(SumSamples(h)), Len(h))

\* the recurrence mean' = (mean * (k - 1) + x) / k in f32 over the first k
\* samples: the product and the sum rounded once (mul_add), then the quotient
RECURSIVE RunningMean(_, _)
RunningMean(h, k) ==
    IF k = 1 THEN h[1]
    ELSE F32DivInt(F32MulAdd(RunningMean(h, k - 1), k - 1, h[k]), k)

\* floor(a * 2^20), for |a| <= 2
Fixed20(a) == IF a.e >= -20 THEN a.m * Pow2(a.e + 20) ELSE FloorShift(a.m, -a.e - 20)

----------------------------------------------------------------------------
(* The frames of the last simulate call: frame k is the call on node       *)
(* FrameNode(k); when it descended, frame k + 1 is the call on the child   *)
(* and ChildEval(k) what that call returned.                               *)

FrameNode(k) == last[k].node
Descended(k) == last[k].child # 0 /\ k + 1 \in DOMAIN last /\ Returned(k + 1)
ChildEval(k) == last[k + 1].ret
FirstVisit(k) == pre[FrameNode(k)].visit_count = 0
ChildPlies(n) == {tree[c].evaluation.ply : c \in ChildSet(tree, n)}
Inner == {n \in Nodes : Terminal(n) = "None"}

\* the frame of the last call in which node n took the evaluation it has
PromotedIn(n) ==
    {k \in DOMAIN last : FrameNode(k) = n /\ Descended(k) /\ last[k].branch = "promote"}

----------------------------------------------------------------------------
(* C15: Win promotion.  When the child a call descended into returns       *)
(* Loss(n), the node is Win(n) when the call returns, which returns        *)
(* Win(n), whatever the other children are; the sample (1) is counted.     *)
C15_WinPromotion ==
    \A k \in DOMAIN last :
        Descended(k) /\ IsLoss(ChildEval(k)) =>
            /\ last[k].branch = "promote"
            /\ tree[FrameNode(k)].evaluation.tag = "Win"
            /\ tree[FrameNode(k)].evaluation.ply = ChildEval(k).ply
            /\ last[k].ret = tree[FrameNode(k)].evaluation
            /\ Len(hist[FrameNode(k)]) = tree[FrameNode(k)].visit_count
            /\ hist[FrameNode(k)][Len(hist[FrameNode(k)])] = F32OfInt(1)

\* a child returned Loss(n), n >= 1, while a sibling was not proven
C15_Witness ==
    \E k \in DOMAIN last :
        /\ Descended(k) /\ IsLoss(ChildEval(k)) /\ ChildEval(k).ply >= 1
        /\ \E c \in ChildSet(tree, FrameNode(k)) : ~Proven(tree[c].evaluation)

----------------------------------------------------------------------------
(* C16: Loss promotion.  A node that is not terminal and is proven Loss(m) *)
(* has all children proven Win and m = 1 + the maximal ply of its          *)
(* children; it became Loss in a call whose child returned Win.            *)
C16_LossPromotion ==
    \A n \in Inner :
        IsLoss(tree[n].evaluation) =>
            /\ \A c \in ChildSet(tree, n) : IsWin(tree[c].evaluation)
            /\ tree[n].children # <<>>
            /\ tree[n].evaluation.ply = 1 + SetMax(ChildPlies(n))
            /\ ~IsLoss(pre[n].evaluation) =>
                  \E k \in PromotedIn(n) : IsWin(ChildEval(k))

\* a node became Loss over Win children of different plies
C16_Witness ==
    \E n \in Inner :
        /\ IsLoss(tree[n].evaluation) /\ ~IsLoss(pre[n].evaluation)
        /\ Cardinality(ChildPlies(n)) >= 2

----------------------------------------------------------------------------
(* C17: Draw promotion.  A node that is not terminal and is proven Draw(m) *)
(* has all children proven Win or Draw, one of them Draw, and m = 1 + the  *)
(* maximal ply of its Draw children; it became Draw in a call whose child  *)
(* returned Draw or Win.                                                   *)
DrawChildPlies(n) ==
    {tree[c].evaluation.ply : c \in {d \in ChildSet(tree, n) : IsDraw(tree[d].evaluation)}}

C17_DrawPromotion ==
    \A n \in Inner :
        IsDraw(tree[n].evaluation) =>
            /\ \A c \in ChildSet(tree, n) :
                  IsWin(tree[c].evaluation) \/ IsDraw(tree[c].evaluation)
            /\ DrawChildPlies(n) # {}
            /\ tree[n].evaluation.ply = 1 + SetMax(DrawChildPlies(n))
            /\ ~IsDraw(pre[n].evaluation) =>
                  \E k \in PromotedIn(n) : IsDraw(ChildEval(k)) \/ IsWin(ChildEval(k))

\* a node became Draw with a Win child of a larger ply than its Draw children
C17_Witness ==
    \E n \in Inner :
        /\ IsDraw(tree[n].evaluation) /\ ~IsDraw(pre[n].evaluation)
        /\ DrawChildPlies(n) # {}
        /\ SetMax(ChildPlies(n)) > SetMax(DrawChildPlies(n))

----------------------------------------------------------------------------
(* simulate on a node that is proven when the call begins.                 *)

\* the positions below p
RECURSIVE Below(_)
Below(p) ==
    LET kids == {Env.kids[p][i] : i \in DOMAIN Env.kids[p]}
    IN kids \cup UNION {Below(c) : c \in kids}

\* the call counted one visit on its node and changed nothing else at or
\* below it
OnlyCounted(k) ==
    /\ tree[FrameNode(k)] =
          [pre[FrameNode(k)] EXCEPT !.visit_count = pre[FrameNode(k)].visit_count + 1]
    /\ \A d \in Below(FrameNode(k)) \cap Nodes : d \in DOMAIN pre /\ tree[d] = pre[d]
    /\ k = Len(last)

ReturnedStored(k) ==
    /\ last[k].branch = "known"
    /\ last[k].ret = pre[FrameNode(k)].evaluation
    /\ OnlyCounted(k)

(* C18, as claimed: a call on a proven node returns the stored evaluation, *)
(* counts one visit, and changes nothing else at or below the node.        *)
C18_KnownReturns ==
    \A k \in DOMAIN last :
        Proven(pre[FrameNode(k)].evaluation) => ReturnedStored(k)

(* C18, amended: so it is for a node proven Loss or Draw, and for a node   *)
(* proven Win in a build without debug assertions; with them a call on a   *)
(* node proven Win panics (debug_assert), having counted the visit.        *)
C18_KnownReturnsOrAsserts ==
    \A k \in DOMAIN last :
        Proven(pre[FrameNode(k)].evaluation) =>
            IF debug /\ IsWin(pre[FrameNode(k)].evaluation)
            THEN last[k].branch = "panic" /\ last[k].child = 0 /\ OnlyCounted(k)
            ELSE ReturnedStored(k)

\* a call descended into a proven child with children of its own
C18_Witness ==
    \E k \in DOMAIN last :
        /\ k > 1
        /\ Proven(pre[FrameNode(k)].evaluation)
        /\ last[k].branch = "known"
        /\ pre[FrameNode(k)].children # <<>>

----------------------------------------------------------------------------
(* C19: expansion, then descent.  The first call on a node expands it or   *)
(* finds it terminal and descends nowhere; a node is expanded in its first *)
(* call only; every later call on it while it is unproven descends into    *)
(* one of its children.                                                    *)
C19_ExpandThenDescend ==
    \A k \in DOMAIN last :
        /\ FirstVisit(k) =>
              last[k].branch \in {"expand", "terminal"} /\ last[k].child = 0 /\ k = Len(last)
        /\ last[k].branch = "expand" =>
              FirstVisit(k) /\ pre[FrameNode(k)].children = <<>>
        /\ ~FirstVisit(k) /\ ~Proven(pre[FrameNode(k)].evaluation) =>
              /\ last[k].branch \notin {"expand", "terminal"}
              /\ last[k].child \in ChildSet(pre, FrameNode(k))
              /\ k + 1 \in DOMAIN last
              /\ FrameNode(k + 1) = last[k].child

\* a call that descended twice and then expanded a node
C19_Witness ==
    /\ Len(last) >= 3
    /\ last[Len(last)].branch = "expand"
    /\ \A k \in 1..(Len(last) - 1) : pre[FrameNode(k)].visit_count >= 1

----------------------------------------------------------------------------
(* C20: terminal nodes.  The first call on a node at a terminal position   *)
(* stores and returns the outcome terminal() reports, with ply 0; the      *)
(* node holds no estimate of the agent and never has children.             *)
C20_TerminalNodes ==
    /\ \A k \in DOMAIN last :
          /\ last[k].branch = "terminal" => FirstVisit(k) /\ Terminal(FrameNode(k)) # "None"
          /\ FirstVisit(k) /\ Terminal(FrameNode(k)) # "None" =>
                /\ last[k].branch = "terminal"
                /\ last[k].ret = tree[FrameNode(k)].evaluation
    /\ \A n \in Nodes \ Inner :
          /\ tree[n].children = <<>>
          /\ hist[n] = <<>>
          /\ tree[n].visit_count >= 1 =>
                tree[n].evaluation.tag = Terminal(n) /\ tree[n].evaluation.ply = 0

\* a call ended at a terminal position while another terminal node had been
\* visited before
C20_Witness ==
    /\ \E k \in DOMAIN last : k > 1 /\ last[k].branch = "terminal"
    /\ \E n \in Nodes \ Inner :
          tree[n].visit_count >= 1 /\ n \notin {last[k].node : k \in DOMAIN last}

----------------------------------------------------------------------------
(* C11: apply_dirichlet on a node with visit_count = 0 ends at its         *)
(* assertion and leaves every child's probability and logit as they were;  *)
(* with visit_count > 0 the call gets past the assertion.                  *)
NoiseCalled == noisy # Idle /\ noisy.stage # "new"

C11_PreconditionChecked ==
    NoiseCalled =>
        IF noisy.visit_count = 0
        THEN noisy.stage = "assert" /\ noisy.children = noisy.before
        ELSE noisy.stage # "assert"

\* a call on a node with no visits whose children the noise would have changed
C11_Witness ==
    /\ NoiseCalled
    /\ noisy.visit_count = 0
    /\ DirichletNew(noisy.alpha, Len(noisy.children))
    /\ noisy.ratio # F32Zero

----------------------------------------------------------------------------
(* C12, as claimed: after a call of apply_dirichlet that returns, every    *)
(* child's probability is strictly positive and its logit is finite.       *)
C12_StrictlyPositive ==
    NoiseCalled /\ noisy.stage = "returned" =>
        \A i \in DOMAIN noisy.children :
            /\ noisy.children[i].probability.m > 0
            /\ noisy.children[i].logit.class = "finite"

----------------------------------------------------------------------------
(* C13: masking.  The result of policy_value_uncertainty holds one triple  *)
(* per slot whose mask entry is true, in increasing slot order, and none   *)
(* for the other slots: its length is the number of true mask entries and  *)
(* its j-th triple is that of the j-th slot with a true mask entry.        *)
BatchCalled == batch # Idle /\ batch.called
ActiveSlots == {i \in DOMAIN batch.mask : batch.mask[i]}
\* the j-th active slot in increasing order
ActiveSlot(j) ==
    CHOOSE i \in ActiveSlots : Cardinality({k \in ActiveSlots : k <= i}) = j

C13_OneTriplePerActiveSlot ==
    BatchCalled =>
        /\ Len(batch.result) = Cardinality(ActiveSlots)
        /\ \A j \in DOMAIN batch.result :
              batch.result[j] = SlotTriple(batch.env_batch[ActiveSlot(j)])

\* a batch with an inactive slot between two active slots of different values
C13_Witness ==
    /\ BatchCalled
    /\ Len(batch.result) = 2
    /\ batch.result[1].value # batch.result[2].value
    /\ \E i \in DOMAIN batch.mask : ~batch.mask[i] /\ ActiveSlot(1) < i /\ i < ActiveSlot(2)

----------------------------------------------------------------------------
(* C14, as claimed: for every Target, the text of its Display parses to a  *)
(* Target equal to it, and that Target's text is the same text.            *)
Converted == codec # Idle /\ codec.done

RoundTrips ==
    /\ codec.parsed.ok
    /\ TargetEq(codec.original, codec.parsed.target)
    /\ codec.text_again = codec.text

C14_RoundTrip == Converted => RoundTrips

\* no NaN among value, ube and the policy weights
NoNaN(target) ==
    /\ target.value # F32NaN
    /\ target.ube # F32NaN
    /\ \A i \in DOMAIN target.policy : target.policy[i].p # F32NaN

(* C14, amended: for every Target with at least one policy entry, the text *)
(* parses, and the parsed Target's text is the same text; the parsed       *)
(* Target equals the original when moreover reversible_plies of the        *)
(* position is 0 and no float is NaN.  The text of a Target with an empty  *)
(* policy does not parse (WrongPolicyFormat).                              *)
C14_RoundTripOfWrittenTargets ==
    Converted =>
        IF codec.original.policy = <<>>
        THEN ~codec.parsed.ok /\ codec.parsed.err = "WrongPolicyFormat"
        ELSE /\ codec.parsed.ok
             /\ codec.text_again = codec.text
             /\ codec.original.env.reversible_plies = 0 /\ NoNaN(codec.original)
                   => TargetEq(codec.original, codec.parsed.target)

\* a Target of two policy entries of different moves and weights, value and
\* ube different, that came back equal
C14_Witness ==
    /\ Converted
    /\ RoundTrips
    /\ Len(codec.original.policy) = 2
    /\ codec.original.policy[1].action # codec.original.policy[2].action
    /\ codec.original.policy[1].p # codec.original.policy[2].p
    /\ codec.original.value # codec.original.ube

----------------------------------------------------------------------------
(* C21: children are fixed at expansion.  The call that expands a node     *)
(* leaves it with one child per legal action of its position, in the order *)
(* of populate_actions, each child with no visits, no children and the     *)
(* oracle's prior of its action, and with the evaluation Value(oracle's    *)
(* estimate); the children of a node that has children are the same        *)
(* sequence after every later call.                                        *)
FreshChild(n, i) == FromPolicy(AgentPolicy(i, Len(PopulateActions(n))))

C21_ChildrenFixedAtExpansion ==
    /\ \A k \in DOMAIN last :
          last[k].branch = "expand" =>
              /\ Terminal(FrameNode(k)) = "None"
              /\ tree[FrameNode(k)].children = PopulateActions(FrameNode(k))
              /\ \A i \in DOMAIN tree[FrameNode(k)].children :
                    tree[tree[FrameNode(k)].children[i]] = FreshChild(FrameNode(k), i)
              /\ tree[FrameNode(k)].evaluation = EvalValue(AgentValue(FrameNode(k)))
    /\ \A n \in DOMAIN pre :
          pre[n].children # <<>> => n \in Nodes /\ tree[n].children = pre[n].children
    /\ \A n \in Nodes :
          tree[n].children # <<>> =>
              /\ tree[n].children = PopulateActions(n)
              /\ \A i \in DOMAIN tree[n].children :
                    tree[tree[n].children[i]].policy = FreshChild(n, i).policy

\* a call that went through two nodes with children and expanded a node of
\* two actions with different priors
C21_Witness ==
    /\ Len(last) >= 3
    /\ last[Len(last)].branch = "expand"
    /\ Len(tree[FrameNode(Len(last))].children) >= 2
    /\ FreshChild(FrameNode(Len(last)), 1) # FreshChild(FrameNode(Len(last)), 2)

----------------------------------------------------------------------------
(* C22: selection never runs dry.  A call that reaches the selection step  *)
(* (its node is unproven and was visited before) finds a child that is not *)
(* a proven Win and descends into it, so the unreachable! of the selection *)
(* is not executed; every unproven node with children has a child that is  *)
(* not a proven Win; and a call is made on a node proven Win only when     *)
(* that node is the root the caller calls simulate on.                     *)
AtSelection(k) ==
    ~Proven(pre[FrameNode(k)].evaluation) /\ pre[FrameNode(k)].visit_count >= 1

OpenChildren(t, n) == {c \in ChildSet(t, n) : ~IsWin(t[c].evaluation)}

C22_SelectionNeverDry ==
    /\ \A k \in DOMAIN last :
          AtSelection(k) =>
              /\ OpenChildren(pre, FrameNode(k)) # {}
              /\ last[k].child \in OpenChildren(pre, FrameNode(k))
    /\ \A k \in DOMAIN last : IsWin(pre[FrameNode(k)].evaluation) => k = 1
    /\ \A n \in Nodes :
          ~Proven(tree[n].evaluation) /\ tree[n].children # <<>> =>
              OpenChildren(tree, n) # {}

\* a selection below the root at a node with one child left that is not a
\* proven Win, its other children proven Win
C22_Witness ==
    \E k \in DOMAIN last :
        /\ k > 1
        /\ AtSelection(k)
        /\ Cardinality(OpenChildren(pre, FrameNode(k))) = 1
        /\ Cardinality(ChildSet(pre, FrameNode(k))) >= 2

----------------------------------------------------------------------------
(* C23: single-path effect.  The nodes a simulate call on the root is made *)
(* on are one path from the root downward, each the child its parent       *)
(* selected; on each of them visit_count grows by exactly one; every other *)
(* node that was in the tree is unchanged in every field; the nodes new to *)
(* the tree are the fresh children of the one node the call expanded; at   *)
(* most one node is expanded, the last of the path, and the agent is       *)
(* queried for that position only.                                         *)
Path == {FrameNode(k) : k \in DOMAIN last}
Expansions == {k \in DOMAIN last : last[k].branch = "expand"}
\* the positions the agent was queried for in the last call: the nodes that
\* took the oracle's estimate and children
Queried == {n \in Nodes : n \in DOMAIN pre /\ pre[n].children = <<>> /\ tree[n].children # <<>>}

C23_SinglePath ==
    last # <<>> =>
        /\ FrameNode(1) = 1
        /\ \A k \in DOMAIN last :
              k < Len(last) =>
                  last[k].child = FrameNode(k + 1)
                      /\ FrameNode(k + 1) \in ChildSet(pre, FrameNode(k))
        /\ Cardinality(Path) = Len(last)
        /\ \A n \in Path :
              n \in DOMAIN pre /\ tree[n].visit_count = pre[n].visit_count + 1
        /\ \A n \in DOMAIN pre : n \in Nodes /\ (n \notin Path => tree[n] = pre[n])
        /\ \A n \in Nodes \ DOMAIN pre :
              /\ Expansions # {}
              /\ \E i \in DOMAIN tree[FrameNode(Len(last))].children :
                    /\ tree[FrameNode(Len(last))].children[i] = n
                    /\ tree[n] = FreshChild(FrameNode(Len(last)), i)
        /\ Cardinality(Expansions) <= 1
        /\ Expansions \subseteq {Len(last)}
        /\ Queried = {FrameNode(k) : k \in Expansions}

\* a call through three nodes that expanded the last, in a tree with a
\* visited node off its path
C23_Witness ==
    /\ Len(last) >= 3
    /\ Expansions # {}
    /\ \E n \in DOMAIN pre : n \notin Path /\ pre[n].visit_count >= 1

----------------------------------------------------------------------------
(* C25: visit-count conservation.  A node with children has a visit_count  *)
(* of at least 1 + the sum of its children's visit_counts, and exactly     *)
(* that while it is unproven; the visit_count of the root is the number of *)
(* simulate calls made on it.                                              *)
RECURSIVE SumVisits(_, _)
SumVisits(t, kids) ==
    IF kids = <<>> THEN 0 ELSE t[Head(kids)].visit_count + SumVisits(t, Tail(kids))

C25_VisitConservation ==
    /\ \A n \in Nodes :
          tree[n].children # <<>> =>
              /\ tree[n].visit_count >= 1 + SumVisits(tree, tree[n].children)
              /\ ~Proven(tree[n].evaluation) =>
                    tree[n].visit_count = 1 + SumVisits(tree, tree[n].children)
    /\ tree[1].visit_count = calls

\* a proven node called again since its proof, and an unproven node whose
\* children were visited
C25_Witness ==
    /\ \E n \in Nodes :
          /\ tree[n].children # <<>>
          /\ Proven(tree[n].evaluation)
          /\ tree[n].visit_count > 1 + SumVisits(tree, tree[n].children)
    /\ \E n \in Nodes :
          /\ ~Proven(tree[n].evaluation)
          /\ tree[n].children # <<>>
          /\ SumVisits(tree, tree[n].children) >= 2

----------------------------------------------------------------------------
(* C26: no missed promotion.  In every state between simulate calls, a     *)
(* node with a child proven Loss is proven Win, a node with children that  *)
(* are all proven Win is proven Loss, and a node with children that are    *)
(* all proven Win or Draw, one of them Draw, is proven Draw.               *)
C26_NoMissedPromotion ==
    \A n \in Nodes :
        tree[n].children # <<>> =>
            /\ (\E c \in ChildSet(tree, n) : IsLoss(tree[c].evaluation))
                  => IsWin(tree[n].evaluation)
            /\ (\A c \in ChildSet(tree, n) : IsWin(tree[c].evaluation))
                  => IsLoss(tree[n].evaluation)
            /\ ((\A c \in ChildSet(tree, n) :
                    IsWin(tree[c].evaluation) \/ IsDraw(tree[c].evaluation))
                 /\ (\E c \in ChildSet(tree, n) : IsDraw(tree[c].evaluation)))
                  => IsDraw(tree[n].evaluation)

\* a node became Draw in a call whose child returned Win, a sibling being
\* a proven Draw
C26_Witness ==
    \E k \in DOMAIN last :
        /\ Descended(k)
        /\ IsWin(ChildEval(k))
        /\ last[k].branch = "promote"
        /\ IsDraw(tree[FrameNode(k)].evaluation)
        /\ ~Proven(pre[FrameNode(k)].evaluation)

----------------------------------------------------------------------------
(* C27: visit matching with equal priors.  In every state, at a node whose *)
(* children all carry the same prior, the visit counts of any two children *)
(* that are not proven Win differ by at most one.                          *)
EqualPriors(n) ==
    \A c, d \in ChildSet(tree, n) : tree[c].policy = tree[d].policy

C27_VisitMatching ==
    \A n \in Nodes :
        EqualPriors(n) =>
            \A c, d \in OpenChildren(tree, n) :
                tree[c].visit_count - tree[d].visit_count <= 1

\* a node of equal priors with two children that are not proven Win, of
\* visit counts 2 or more that differ by one, and a child proven Win that
\* has fewer visits than both
C27_Witness ==
    \E n \in Nodes :
        /\ EqualPriors(n)
        /\ \E c, d \in OpenChildren(tree, n) :
              /\ tree[d].visit_count >= 2
              /\ tree[c].visit_count = tree[d].visit_count + 1
              /\ \E w \in ChildSet(tree, n) :
                    IsWin(tree[w].evaluation) /\ tree[w].visit_count < tree[d].visit_count

----------------------------------------------------------------------------
(* C24, as claimed: in improved_policy the completed value of a child is   *)
(* the parent's own evaluation exactly when the child has visit_count 0,   *)
(* and the negated evaluation of the child when the child has been         *)
(* visited at least once.                                                  *)
Improved == picked # NoPick

C24_CompletedValue ==
    Improved =>
        \A j \in DOMAIN picked.completed :
            IF PickKid(j).visit_count = 0
            THEN picked.completed[j] =
                    [from |-> "parent", value |-> EvalToF32(tree[1].evaluation)]
            ELSE picked.completed[j] =
                    [from |-> "child", value |-> EvalToF32(Negate(PickKid(j).evaluation))]

\* what the code computes: the parent's evaluation for a child of
\* visit_count 0 or 1, the negated evaluation of the child from 2 on
C24_CompletedValueOfCode ==
    Improved =>
        \A j \in DOMAIN picked.completed :
            IF PickKid(j).visit_count <= 1
            THEN picked.completed[j] =
                    [from |-> "parent", value |-> EvalToF32(tree[1].evaluation)]
            ELSE picked.completed[j] =
                    [from |-> "child", value |-> EvalToF32(Negate(PickKid(j).evaluation))]

\* improved_policy at a root with a child visited once whose negated
\* evaluation is not the root's evaluation
C24_Failing ==
    /\ Improved
    /\ \E j \in DOMAIN picked.completed :
          /\ PickKid(j).visit_count = 1
          /\ Proven(PickKid(j).evaluation)
          /\ picked.completed[j].value # EvalToF32(Negate(PickKid(j).evaluation))

----------------------------------------------------------------------------
(* Self-play: the threads, and the steps and salvages they have made.      *)
ThreadIds == DOMAIN play.threads
Playing == play # Idle
Stepped(t) == play.threads[t].top_actions # [i \in Slots |-> 0]
Min(a, b) == IF a < b THEN a ELSE b
IsPrefix(s, t) == Len(s) <= Len(t) /\ s = SubSeq(t, 1, Len(s))

\* replay r, the j-th of the pending replays of a game at position env,
\* holds the moves played from its start, STEP of them at most
ReplayOfGame(r, j, env) ==
    /\ Len(r.env) = j - 1
    /\ Len(r.actions) = Min(STEP, Len(env) - Len(r.env))
    /\ IsPrefix(r.env \o r.actions, env)

----------------------------------------------------------------------------
(* C28: the replay action window.  A step starts one replay at the         *)
(* position of the game and appends the chosen action to the STEP most     *)
(* recently started replays of the game, that one included, and to no      *)
(* other; no pending replay holds more than STEP actions, and the actions  *)
(* of a pending replay are the consecutive moves played from its start     *)
(* position.                                                               *)
C28_ReplayWindow ==
    Playing =>
        \A t \in ThreadIds : \A i \in Slots :
            LET th == play.threads[t]
                b == th.before[i]
                u == th.updated[i]
                n == Len(u)
            IN /\ Stepped(t) =>
                    /\ n = Len(b) + 1
                    /\ u[n].env \o <<th.top_actions[i]>> = th.stepped[i]
                    /\ u[n].actions = <<th.top_actions[i]>>
                    /\ \A j \in DOMAIN b :
                          /\ u[j].env = b[j].env
                          /\ u[j].actions =
                                IF j > n - STEP
                                THEN Append(b[j].actions, th.top_actions[i])
                                ELSE b[j].actions
                    /\ \A j \in DOMAIN u : ReplayOfGame(u[j], j, th.stepped[i])
               /\ \A j \in DOMAIN th.replays_batch[i] :
                     /\ Len(th.replays_batch[i][j].actions) <= STEP
                     /\ ReplayOfGame(th.replays_batch[i][j], j, th.envs[i])

\* a step that left the oldest pending replay, full, out of its window
C28_Witness ==
    /\ Playing
    /\ \E t \in ThreadIds : \E i \in Slots :
          LET th == play.threads[t]
          IN /\ Stepped(t)
             /\ Len(th.updated[i]) = STEP + 1
             /\ th.updated[i][1] = th.before[i][1]
             /\ Len(th.updated[i][1].actions) = STEP
             /\ Len(th.updated[i][2].actions) = STEP

----------------------------------------------------------------------------
(* C29: the salvage.  At the end of a round the games still pending are    *)
(* unfinished; of the pending replays of each, those started before the    *)
(* last STEP are moved to the replay buffer, each holding exactly STEP     *)
(* actions, the STEP most recently started are discarded, and every        *)
(* pending list is left empty.                                             *)
Salvaging(t) == play.threads[t].pc \in {"truncate", "start", "done"}

C29_Salvage ==
    Playing =>
        /\ \A k \in DOMAIN play.replay_buffer :
              play.replay_buffer[k].how = "salvaged" =>
                  Len(play.replay_buffer[k].replay.actions) = STEP
        /\ \A t \in ThreadIds :
              LET th == play.threads[t]
              IN /\ th.moved =
                       Flatten([i \in Slots |->
                                   SubSeq(th.at_salvage[i], 1, Len(th.at_salvage[i]) - STEP)],
                               Slots)
                 /\ \A k \in DOMAIN th.moved : Len(th.moved[k].actions) = STEP
                 /\ \A i \in Slots :
                       \A j \in DOMAIN th.at_salvage[i] :
                           j > Len(th.at_salvage[i]) - STEP =>
                               Len(th.at_salvage[i][j].actions) = Len(th.at_salvage[i]) - j + 1
                 /\ Salvaging(t) =>
                       \A i \in Slots : th.replays_batch[i] = <<>>

\* a salvage of a game with more than STEP pending replays, one of its
\* replays in the buffer
C29_Witness ==
    /\ Playing
    /\ \E t \in ThreadIds :
          /\ play.threads[t].pc = "truncate"
          /\ \E i \in Slots : Len(play.threads[t].at_salvage[i]) > STEP
          /\ play.threads[t].moved # <<>>
          /\ \E k \in DOMAIN play.replay_buffer :
                /\ play.replay_buffer[k].how = "salvaged"
                /\ play.replay_buffer[k].replay = play.threads[t].moved[1]

----------------------------------------------------------------------------
(* C30, as claimed: the replay buffer never holds more than                *)
(* MAXIMUM_REPLAY_BUFFER_SIZE replays, and a truncation removes only the   *)
(* oldest entries.                                                         *)
NewestFirst(buffer) ==
    \A k \in DOMAIN buffer : \A l \in DOMAIN buffer :
        k < l => buffer[k].stamp > buffer[l].stamp

OldestRemoved ==
    /\ Len(play.cut.after) = Min(Len(play.cut.before), MAXIMUM_REPLAY_BUFFER_SIZE)
    /\ IsPrefix(play.cut.after, play.cut.before)
    /\ NewestFirst(play.cut.before)

C30_BufferBounded ==
    Playing =>
        /\ Len(play.replay_buffer) <= MAXIMUM_REPLAY_BUFFER_SIZE
        /\ OldestRemoved

(* C30, amended: the buffer is cut to MAXIMUM_REPLAY_BUFFER_SIZE replays   *)
(* only when a thread has finished a round; it holds the newest replay     *)
(* first and a truncation removes only the oldest; between truncations it  *)
(* grows beyond the maximum, by no more than the replays one round of      *)
(* every thread starts (threads * BATCH_SIZE *                             *)
(* STEPS_BEFORE_CHECKING_NETWORK).                                         *)
RoundReplays == Threads * BATCH_SIZE * STEPS_BEFORE_CHECKING_NETWORK

C30_BufferBoundedAtTruncation ==
    Playing =>
        /\ OldestRemoved
        /\ NewestFirst(play.replay_buffer)
        /\ Len(play.replay_buffer) <= MAXIMUM_REPLAY_BUFFER_SIZE + RoundReplays

\* a truncation that removed replays, and the buffer beyond the maximum
\* again
C30_Witness ==
    /\ Playing
    /\ Len(play.cut.before) > MAXIMUM_REPLAY_BUFFER_SIZE
    /\ Len(play.cut.after) = MAXIMUM_REPLAY_BUFFER_SIZE
    /\ Len(play.replay_buffer) > MAXIMUM_REPLAY_BUFFER_SIZE
    /\ play.replay_buffer[1].stamp > play.cut.before[1].stamp

====
